---- MODULE Spec2Model ----
(***************************************************************************)
(* Model of src/dedupe/csv_evaluation.py: the script that trains (or       *)
(* reloads) a dedupe model, partitions the records of a CSV file and       *)
(* writes every input row back with a Cluster ID, a confidence score and   *)
(* the canonical representation of its cluster.                            *)
(*                                                                         *)
(* The script's own statements are modelled from the source.  The calls    *)
(* into the dedupe engine (prepare_training, console_label, train,         *)
(* partition, canonicalize) are modelled from the design document, as the  *)
(* engine's code is not part of the source tree.                           *)
(*                                                                         *)
(* Two specifications share the state:                                     *)
(*   Spec         the training / persistence life cycle over several runs  *)
(*                (lines 41-105), the clustering tail taken as one step;   *)
(*   SpecCluster  the clustering and writing tail of one run               *)
(*                (lines 105-160) over all record sets and pair scores.    *)
(***************************************************************************)
EXTENDS Integers, Sequences, FiniteSets, TLC

\* ------------------------------------------------------------------ bounds
MaxPairs == 3        \* candidate pairs the active learner can show
MaxRuns == 2         \* invocations of the script
NumRecords == 3      \* rows of the input file

\* --------------------------------------------------------------- constants
Threshold == 7       \* partition(..., threshold=0.7), in tenths

Missing == "Missing"       \* None / NaN field value
Null == -1                 \* None in the confidence column

Pairs == 1..MaxPairs

\* deduper.training_pairs: {"match": [...], "distinct": [...]}
LabelSets ==
  {tp \in [match : SUBSET Pairs, distinct : SUBSET Pairs] :
     tp.match \cap tp.distinct = {}}

NoLabels == [match |-> {}, distinct |-> {}]

\* A file of labeled examples (or of the model trained on them).
NoFile == [exists |-> FALSE, content |-> NoLabels]

FileOf(tp) == [exists |-> TRUE, content |-> tp]

VARIABLES
  pc,              \* position of the running script
  runs,            \* number of invocations so far
  settings_file,   \* csv_example_learned_settings
  training_file,   \* csv_example_training.json
  deduper,         \* the deduper object of the run
  pending,         \* pair handed to the oracle, 0 when none
  response,        \* last answer of the oracle in this run
  err,             \* exception that ended the run
  logAtStart,      \* training_file when the run started
  settingsAtStart, \* settings_file when the run started
  given,           \* match/distinct labels the oracle gave in this run
  asked,           \* TRUE once a label was requested in this run
  df_d,            \* the records read from the input file, by key
  pair_score,      \* score of every record pair under the model, in tenths
  clustered_dupes, \* what partition returned
  cluster_membership,
  cluster_id,
  canonical_rep,
  singleton_id,
  output           \* rows written to the output file

trainVars == <<settings_file, training_file, deduper, pending, response,
               logAtStart, settingsAtStart, given, asked>>

clusterVars == <<df_d, pair_score, clustered_dupes, cluster_membership,
                 cluster_id, canonical_rep, singleton_id, output>>

vars == <<pc, runs, err, trainVars, clusterVars>>

\* ================================================================ records

\* The keys of the records: read_csv numbers the rows 0, 1, ... and the
\* writer looks a row up by its Id column, int(row[0]); the input file's Id
\* column numbers its rows the same way.
Keys == 0..(NumRecords - 1)

Fields == {"Site name", "Address", "Zip", "Phone"}

\* A record with every field present, and one whose Zip is missing.
FullRecord == [f \in Fields |-> "x"]

NoZipRecord == [f \in Fields |-> IF f = "Zip" THEN Missing ELSE "x"]

RecordKinds == {FullRecord, NoZipRecord}

KeyPairs == {kp \in SUBSET Keys : Cardinality(kp) = 2}

ScoreLevels == {5, 7}      \* pair probabilities, in tenths: below and at
                           \* the threshold

NoMembership == [k \in {} |-> 0]

Unbound == [bound |-> FALSE, rep |-> [f \in Fields |-> Missing]]

Bound(r) == [bound |-> TRUE, rep |-> r]

Min(S) == CHOOSE x \in S : \A y \in S : x <= y

Max(S) == CHOOSE x \in S : \A y \in S : x >= y

\* ===================================================== training life cycle

\* The models a settings file can hold: train() succeeded on these examples.
Models == {tp \in LabelSets : tp.match # {} /\ tp.distinct # {}}

NoDeduper ==
  [kind |-> "none", training_pairs |-> NoLabels, model |-> NoFile]

Labeled(tp) == tp.match \cup tp.distinct

\* The labeled examples a training file holds.
LogOf(file) == IF file.exists THEN file.content ELSE NoLabels

Includes(big, small) ==
  small.match \subseteq big.match /\ small.distinct \subseteq big.distinct

\* train() needs examples of both classes.
TrainRaises(tp) == tp.match = {} \/ tp.distinct = {}

\* Variant of MarkPairs: an unsure answer is recorded as distinct.
MarkPairsUnsureDistinct(tp, pair, label) ==
  CASE label = "match" -> [tp EXCEPT !.match = @ \cup {pair}]
    [] OTHER -> [tp EXCEPT !.distinct = @ \cup {pair}]

\* mark_pairs: the oracle's answer added to the training pairs.
MarkPairs(tp, pair, label) ==
  CASE label = "match" -> [tp EXCEPT !.match = @ \cup {pair}]
    [] label = "distinct" -> [tp EXCEPT !.distinct = @ \cup {pair}]
    [] OTHER -> tp

\* python csv_evaluation.py: a new run of the script.
StartRun ==
  /\ pc \in {"done", "crashed"}
  /\ runs < MaxRuns
  /\ runs' = runs + 1
  /\ pc' = "start"
  /\ err' = "none"
  /\ deduper' = NoDeduper
  /\ pending' = 0
  /\ response' = "none"
  /\ given' = NoLabels
  /\ asked' = FALSE
  /\ logAtStart' = training_file
  /\ settingsAtStart' = settings_file
  /\ clustered_dupes' = <<>>
  /\ cluster_membership' = NoMembership
  /\ cluster_id' = 0
  /\ canonical_rep' = Unbound
  /\ singleton_id' = 0
  /\ UNCHANGED <<settings_file, training_file, df_d, pair_score, output>>

\* if os.path.exists(settings_file): deduper = dedupe.StaticDedupe(f)
LoadSettings ==
  /\ pc = "start"
  /\ settings_file.exists
  /\ deduper' = [kind |-> "static", training_pairs |-> NoLabels,
                 model |-> settings_file]
  /\ pc' = "partition"
  /\ UNCHANGED <<runs, err, settings_file, training_file, pending, response,
                 logAtStart, settingsAtStart, given, asked, clusterVars>>

\* Variant of CreateDedupe: the settings file is not looked for.
CreateDedupeAlways ==
  /\ pc = "start"
  /\ deduper' = [kind |-> "active", training_pairs |-> NoLabels,
                 model |-> NoFile]
  /\ pc' = "uninitialized"
  /\ UNCHANGED <<runs, err, settings_file, training_file, pending, response,
                 logAtStart, settingsAtStart, given, asked, clusterVars>>

\* else: deduper = dedupe.Dedupe(fields)
CreateDedupe ==
  /\ pc = "start"
  /\ ~settings_file.exists
  /\ deduper' = [kind |-> "active", training_pairs |-> NoLabels,
                 model |-> NoFile]
  /\ pc' = "uninitialized"
  /\ UNCHANGED <<runs, err, settings_file, training_file, pending, response,
                 logAtStart, settingsAtStart, given, asked, clusterVars>>

\* Variant of PrepareTraining: console_label is not called.
PrepareTrainingSkipLabel ==
  /\ pc = "uninitialized"
  /\ deduper' = [deduper EXCEPT !.training_pairs = LogOf(training_file)]
  /\ pc' = "train"
  /\ UNCHANGED <<runs, err, settings_file, training_file, pending, response,
                 logAtStart, settingsAtStart, given, asked, clusterVars>>

\* deduper.prepare_training(data[, training_file]); then console_label starts
PrepareTraining ==
  /\ pc = "uninitialized"
  /\ deduper' = [deduper EXCEPT !.training_pairs = LogOf(training_file)]
  /\ pc' = "sampling"
  /\ UNCHANGED <<runs, err, settings_file, training_file, pending, response,
                 logAtStart, settingsAtStart, given, asked, clusterVars>>

\* console_label: the learner picks an unlabeled pair and asks the oracle.
Sampling ==
  /\ pc = "sampling"
  /\ \E p \in Pairs \ Labeled(deduper.training_pairs) : pending' = p
  /\ asked' = TRUE
  /\ pc' = "awaiting"
  /\ UNCHANGED <<runs, err, settings_file, training_file, deduper, response,
                 logAtStart, settingsAtStart, given, clusterVars>>

\* console_label: the oracle answers match, distinct or unsure.
OracleLabel ==
  /\ pc = "awaiting"
  /\ \E label \in {"match", "distinct", "unsure"} :
       /\ response' = label
       /\ deduper' = [deduper EXCEPT
                        !.training_pairs = MarkPairs(@, pending, label)]
       /\ given' = MarkPairs(given, pending, label)
  /\ pending' = 0
  /\ pc' = "sampling"
  /\ UNCHANGED <<runs, err, settings_file, training_file, logAtStart,
                 settingsAtStart, asked, clusterVars>>

\* console_label: the oracle answers finished and console_label returns.
OracleFinished ==
  /\ pc = "awaiting"
  /\ response' = "finished"
  /\ pending' = 0
  /\ pc' = "train"
  /\ UNCHANGED <<runs, err, settings_file, training_file, deduper,
                 logAtStart, settingsAtStart, given, asked, clusterVars>>

\* Variant of Train: a failure of train() is swallowed.
TrainSwallow ==
  /\ pc = "train"
  /\ pc' = "write_training"
  /\ deduper' = [deduper EXCEPT !.model = FileOf(deduper.training_pairs)]
  /\ UNCHANGED <<runs, err, settings_file, training_file, pending, response,
                 logAtStart, settingsAtStart, given, asked, clusterVars>>

\* deduper.train(): an exception is not caught and ends the run.
Train ==
  /\ pc = "train"
  /\ IF TrainRaises(deduper.training_pairs)
       THEN /\ pc' = "crashed"
            /\ err' = "InsufficientDataError"
            /\ UNCHANGED deduper
       ELSE /\ pc' = "write_training"
            /\ deduper' = [deduper EXCEPT
                             !.model = FileOf(deduper.training_pairs)]
            /\ UNCHANGED err
  /\ UNCHANGED <<runs, settings_file, training_file, pending, response,
                 logAtStart, settingsAtStart, given, asked, clusterVars>>

\* with open(training_file, "w") as tf: deduper.write_training(tf)
WriteTraining ==
  /\ pc = "write_training"
  /\ training_file' = FileOf(deduper.training_pairs)
  /\ pc' = "write_settings"
  /\ UNCHANGED <<runs, err, settings_file, deduper, pending, response,
                 logAtStart, settingsAtStart, given, asked, clusterVars>>

\* with open(settings_file, "wb") as sf: deduper.write_settings(sf)
WriteSettings ==
  /\ pc = "write_settings"
  /\ settings_file' = deduper.model
  /\ pc' = "partition"
  /\ UNCHANGED <<runs, err, training_file, deduper, pending, response,
                 logAtStart, settingsAtStart, given, asked, clusterVars>>

\* ================================================= clustering and writing

\* A pair qualifies as an edge when its score reaches the threshold.
Qualifies(scores, a, b) == a # b /\ scores[{a, b}] >= Threshold

HasEdge(scores, k) == \E o \in Keys : Qualifies(scores, k, o)

RECURSIVE Grow(_, _, _)
Grow(scores, block, S) ==
  LET T == S \cup {b \in block : \E a \in S : Qualifies(scores, a, b)}
  IN IF T = S THEN S ELSE Grow(scores, block, T)

\* The members of a cluster hang together by qualifying edges.
Connected(scores, block) ==
  Grow(scores, block, {Min(block)}) = block

RECURSIVE SortedSeq(_)
SortedSeq(S) ==
  IF S = {} THEN <<>> ELSE <<Min(S)>> \o SortedSeq(S \ {Min(S)})

\* A record's confidence: its lowest pair score to the other members;
\* a one-member cluster has none.
Confidence(scores, block, k) ==
  IF block = {k} THEN Null
  ELSE Min({scores[{k, o}] : o \in block \ {k}})

\* One returned cluster: (id_set, scores), aligned by position.
ClusterOf(scores, block) ==
  LET ids == SortedSeq(block)
  IN [id_set |-> ids,
      scores |-> [i \in 1..Len(ids) |-> Confidence(scores, block, ids[i])]]

\* The assignments of keys to clusters 1..n that partition allows: no
\* cluster is skipped and every cluster is connected.
Assignments(scores) ==
  {g \in [Keys -> 1..NumRecords] :
     LET used == {g[k] : k \in Keys}
     IN /\ used = 1..Cardinality(used)
        /\ \A c \in used : Connected(scores, {k \in Keys : g[k] = c})}

\* partition(records, threshold): the list of clusters in some order; the
\* one-member clusters are either all listed or all left out.
PartitionResults(scores) ==
  LET Full(g) ==
        [c \in 1..Cardinality({g[k] : k \in Keys}) |->
           ClusterOf(scores, {k \in Keys : g[k] = c})]
      Multi(cl) == Len(cl.id_set) > 1
  IN {Full(g) : g \in Assignments(scores)}
       \cup {SelectSeq(Full(g), Multi) : g \in Assignments(scores)}

\* dedupe.canonicalize(cluster_d): per field a value present in the
\* cluster, missing when the field is missing in every member.
Canonicalize(cluster_d) ==
  [f \in Fields |->
     LET present == {i \in 1..Len(cluster_d) : cluster_d[i][f] # Missing}
     IN IF present = {} THEN Missing ELSE cluster_d[Min(present)][f]]

\* value.encode("utf8"): defined on strings only.
CanEncode(v) == v # Missing

Encode(v) == "b'" \o v \o "'"

\* zip(id_set, scores): the positions both sequences have.
Zip(cluster) ==
  1..(IF Len(cluster.id_set) <= Len(cluster.scores)
        THEN Len(cluster.id_set) ELSE Len(cluster.scores))

\* The clusters of the list that assign record k.
Holding(dupes, k) ==
  {i \in 1..Len(dupes) : \E j \in Zip(dupes[i]) : dupes[i].id_set[j] = k}

\* Variant of Membership: the clusters are numbered from 1.
MembershipFromOne(data, dupes) ==
  [k \in {k \in Keys : Holding(dupes, k) # {}} |->
     LET i == Max(Holding(dupes, k))
         j == Max({j \in Zip(dupes[i]) : dupes[i].id_set[j] = k})
         ids == dupes[i].id_set
     IN [cluster |-> i,
         canonical |-> Canonicalize([n \in 1..Len(ids) |-> data[ids[n]]]),
         confidence |-> dupes[i].scores[j]]]

\* cluster_membership after the loop over enumerate(clustered_dupes).
Membership(data, dupes) ==
  [k \in {k \in Keys : Holding(dupes, k) # {}} |->
     LET i == Max(Holding(dupes, k))
         j == Max({j \in Zip(dupes[i]) : dupes[i].id_set[j] = k})
         ids == dupes[i].id_set
     IN [cluster |-> i - 1,
         canonical |-> Canonicalize([n \in 1..Len(ids) |-> data[ids[n]]]),
         confidence |-> dupes[i].scores[j]]]

\* Variant of FirstSingletonId: the + 1 is forgotten.
FirstSingletonIdSame(last_id) == last_id

\* singleton_id = cluster_id + 1
FirstSingletonId(last_id) == last_id + 1

\* The row of a record that cluster_membership holds.
ClusteredRow(row_id, m) ==
  [row_id |-> row_id,
   cluster |-> m.cluster,
   confidence |-> m.confidence,
   canonical |-> [key \in Fields |-> Encode(m.canonical[key])]]

\* Variant of SingletonRow: a confidence of 1.0 instead of None.
SingletonRowScored(row_id, sid) ==
  [row_id |-> row_id,
   cluster |-> sid,
   confidence |-> 10,
   canonical |-> [key \in Fields |-> Missing]]

\* The row of a record in no returned cluster.
SingletonRow(row_id, sid) ==
  [row_id |-> row_id,
   cluster |-> sid,
   confidence |-> Null,
   canonical |-> [key \in Fields |-> Missing]]

\* clustered_dupes = deduper.partition(df_d.T.to_dict(), threshold=0.7)
Partition ==
  /\ pc = "partition"
  /\ clustered_dupes' \in PartitionResults(pair_score)
  /\ pc' = "membership"
  /\ UNCHANGED <<runs, err, trainVars, df_d, pair_score, cluster_membership,
                 cluster_id, canonical_rep, singleton_id, output>>

\* The loop over enumerate(clustered_dupes) and singleton_id = cluster_id + 1
BuildMembership ==
  /\ pc = "membership"
  /\ LET n == Len(clustered_dupes)
         last == clustered_dupes[n].id_set
     IN /\ cluster_membership' = Membership(df_d, clustered_dupes)
        /\ cluster_id' = IF n = 0 THEN 0 ELSE n - 1
        /\ canonical_rep' =
             IF n = 0 THEN Unbound
             ELSE Bound(Canonicalize([i \in 1..Len(last) |-> df_d[last[i]]]))
        /\ singleton_id' = FirstSingletonId(IF n = 0 THEN 0 ELSE n - 1)
  /\ pc' = "open"
  /\ UNCHANGED <<runs, err, trainVars, df_d, pair_score, clustered_dupes,
                 output>>

\* open(output_file, "w"), the heading row with canonical_rep.keys()
WriteHeading ==
  /\ pc = "open"
  /\ output' = <<>>
  /\ IF canonical_rep.bound
       THEN /\ pc' = IF NumRecords = 0 THEN "done" ELSE "rows"
            /\ UNCHANGED err
       ELSE /\ pc' = "crashed"
            /\ err' = "NameError"
  /\ UNCHANGED <<runs, trainVars, df_d, pair_score, clustered_dupes,
                 cluster_membership, cluster_id, canonical_rep, singleton_id>>

\* for row in reader: one input row written with its Cluster ID
WriteRow ==
  /\ pc = "rows"
  /\ LET row_id == Len(output)
     IN IF row_id \in DOMAIN cluster_membership
          THEN LET m == cluster_membership[row_id]
               IN /\ cluster_id' = m.cluster
                  /\ canonical_rep' = Bound(m.canonical)
                  /\ UNCHANGED singleton_id
                  /\ IF \A key \in Fields : CanEncode(m.canonical[key])
                       THEN /\ output' = Append(output,
                                                ClusteredRow(row_id, m))
                            /\ pc' = IF row_id + 1 = NumRecords
                                       THEN "done" ELSE "rows"
                            /\ UNCHANGED err
                       ELSE /\ pc' = "crashed"
                            /\ err' = "AttributeError"
                            /\ UNCHANGED output
          ELSE /\ output' = Append(output,
                                   SingletonRow(row_id, singleton_id))
               /\ singleton_id' = singleton_id + 1
               /\ pc' = IF row_id + 1 = NumRecords THEN "done" ELSE "rows"
               /\ UNCHANGED <<err, cluster_id, canonical_rep>>
  /\ UNCHANGED <<runs, trainVars, df_d, pair_score, clustered_dupes,
                 cluster_membership>>

\* ========================================================= specifications

TypeOfFiles ==
  {NoFile} \cup {FileOf(tp) : tp \in LabelSets}

\* The input of the life-cycle specification: records 0 and 1 score 0.9
\* together, the last record has no Zip and no qualifying edge.
FixedData ==
  [k \in Keys |-> IF k = NumRecords - 1 THEN NoZipRecord ELSE FullRecord]

FixedScores ==
  [kp \in KeyPairs |-> IF kp = {0, 1} THEN 9 ELSE 5]

InitRun ==
  /\ pc = "start"
  /\ runs = 1
  /\ err = "none"
  /\ deduper = NoDeduper
  /\ pending = 0
  /\ response = "none"
  /\ given = NoLabels
  /\ asked = FALSE
  /\ logAtStart = training_file
  /\ settingsAtStart = settings_file
  /\ clustered_dupes = <<>>
  /\ cluster_membership = NoMembership
  /\ cluster_id = 0
  /\ canonical_rep = Unbound
  /\ singleton_id = 0
  /\ output = <<>>

\* The first run finds no settings file, and any training file or none.
Init ==
  /\ settings_file = NoFile
  /\ training_file \in TypeOfFiles
  /\ df_d = FixedData
  /\ pair_score = FixedScores
  /\ InitRun

Next ==
  \/ StartRun
  \/ LoadSettings
  \/ CreateDedupe
  \/ PrepareTraining
  \/ Sampling
  \/ OracleLabel
  \/ OracleFinished
  \/ Train
  \/ WriteTraining
  \/ WriteSettings
  \/ Partition
  \/ BuildMembership
  \/ WriteHeading
  \/ WriteRow

Spec == Init /\ [][Next]_vars

\* One run that reuses a persisted model, over every record set and every
\* scoring of its pairs, from the call of partition on.
InitCluster ==
  /\ settings_file = FileOf([match |-> {1}, distinct |-> {2}])
  /\ training_file = settings_file
  /\ df_d \in [Keys -> RecordKinds]
  /\ pair_score \in [KeyPairs -> ScoreLevels]
  /\ pc = "partition"
  /\ runs = 1
  /\ err = "none"
  /\ deduper = [kind |-> "static", training_pairs |-> NoLabels,
                model |-> settings_file]
  /\ pending = 0
  /\ response = "none"
  /\ given = NoLabels
  /\ asked = FALSE
  /\ logAtStart = training_file
  /\ settingsAtStart = settings_file
  /\ clustered_dupes = <<>>
  /\ cluster_membership = NoMembership
  /\ cluster_id = 0
  /\ canonical_rep = Unbound
  /\ singleton_id = 0
  /\ output = <<>>

NextCluster ==
  \/ Partition
  \/ BuildMembership
  \/ WriteHeading
  \/ WriteRow

SpecCluster == InitCluster /\ [][NextCluster]_vars

\* ================================================================= claims

RunEnded == pc \in {"done", "crashed"}

\* C2: when the operator finishes labeling with no example of one class,
\* training fails with InsufficientDataError and the run ends with no
\* settings file: none existed and none was written.
C2_NoModelOnInsufficientData ==
  (/\ deduper.kind = "active"
   /\ response = "finished"
   /\ TrainRaises(deduper.training_pairs)
   /\ pc # "train")
    => /\ pc = "crashed"
       /\ err = "InsufficientDataError"
       /\ ~settings_file.exists
       /\ settings_file = settingsAtStart

C2_Witness ==
  /\ pc = "crashed"
  /\ err = "InsufficientDataError"
  /\ Labeled(given) # {}

\* C3: after a run, the training file holds every labeled example it held
\* when the run started and every match/distinct label the oracle gave
\* during the run.
C3_LabelsAppendOnly ==
  RunEnded =>
    /\ Includes(LogOf(training_file), LogOf(logAtStart))
    /\ Includes(LogOf(training_file), given)

\* C4: a run that finds the settings file loads the model, asks for no
\* label, does not train, leaves the settings file and the training file
\* as they were, and goes on to partition.
C4_PersistedModelReused ==
  (settingsAtStart.exists /\ pc # "start")
    => /\ deduper.kind = "static"
       /\ deduper.model = settingsAtStart
       /\ ~asked
       /\ given = NoLabels
       /\ response = "none"
       /\ settings_file = settingsAtStart
       /\ training_file = logAtStart
       /\ err # "InsufficientDataError"
       /\ pc \in {"partition", "membership", "open", "rows", "done",
                  "crashed"}

C4_Witness ==
  /\ runs = 2
  /\ settingsAtStart.exists
  /\ logAtStart.exists
  /\ pc = "done"

\* C5: the session goes Uninitialized -> Sampling -> AwaitingLabel ->
\* Sampling ... and leaves the loop only on the answer finished; training,
\* the two files and clustering are not touched before finished is received.
C5_InLoop == pc \in {"uninitialized", "sampling", "awaiting"}

C5_LoopStep ==
  /\ pc = "uninitialized" => pc' = "sampling"
  /\ pc = "sampling" => pc' = "awaiting"
  /\ pc = "awaiting" =>
       \/ pc' = "sampling" /\ response' \in {"match", "distinct", "unsure"}
       \/ pc' = "train" /\ response' = "finished"

C5_NothingBeforeFinished ==
  (deduper.kind = "active" /\ response # "finished")
    => /\ C5_InLoop
       /\ deduper.model = NoFile
       /\ settings_file = settingsAtStart
       /\ training_file = logAtStart
       /\ clustered_dupes = <<>>

C5_LeavesLoopOnlyOnFinished ==
  [](C5_NothingBeforeFinished) /\ [][C5_LoopStep]_vars

C5_Witness ==
  /\ pc = "awaiting"
  /\ response = "unsure"
  /\ Labeled(given) # {}

\* C6: an unsure answer adds no labeled example: the training pairs after
\* it are the training pairs before it, and the session samples again.
C6_UnsureAddsNothing ==
  [][(pc = "awaiting" /\ response' = "unsure" /\ pc' # "awaiting")
       => /\ deduper'.training_pairs = deduper.training_pairs
          /\ given' = given
          /\ training_file' = training_file
          /\ pc' = "sampling"]_vars

C6_Witness ==
  /\ pc = "sampling"
  /\ response = "unsure"
  /\ asked

Rows == 1..Len(output)

\* The returned clusters, as sets of record keys.
Members(i) ==
  {clustered_dupes[i].id_set[j] : j \in 1..Len(clustered_dupes[i].id_set)}

Returned == 1..Len(clustered_dupes)

\* The rows that went through the else branch of the writer.
Minted(r) == Holding(clustered_dupes, output[r].row_id) = {}

C8_MissingCanonicalWritten ==
  /\ err # "AttributeError"
  /\ \A r \in Rows : \A i \in Holding(clustered_dupes, output[r].row_id) :
       \A f \in Fields :
         (\A k \in Members(i) : df_d[k][f] = Missing)
           => output[r].canonical[f] = Missing

\* C9: the row of a record with no qualifying edge carries a Cluster ID no
\* other row carries and a null confidence, and no returned cluster joins
\* it to another record; the row of every member of a multi-record cluster
\* carries a confidence in [0,1] (0..10 tenths).
C9_SingletonsAlone ==
  /\ \A i \in Returned : \A k \in Members(i) :
       ~HasEdge(pair_score, k) => Members(i) = {k}
  /\ \A r \in Rows :
       /\ ~HasEdge(pair_score, output[r].row_id)
            => /\ output[r].confidence = Null
               /\ \A q \in Rows :
                    output[q].cluster = output[r].cluster => q = r
       /\ (\E i \in Returned :
             output[r].row_id \in Members(i) /\ Cardinality(Members(i)) > 1)
            => output[r].confidence \in 0..10

C9_Witness ==
  /\ pc = "done"
  /\ \E r, q \in Rows :
       /\ Minted(r)
       /\ ~HasEdge(pair_score, output[r].row_id)
       /\ ~Minted(q)
       /\ output[q].confidence \in 0..10

====
